---- MODULE Spec2Model ----
(***************************************************************************)
(* A model of the tmkms signing keyring (src/keyring.rs), of the           *)
(* software-backed ECDSA provider loader (src/keyring/ecdsa/softsign.rs),  *)
(* of HChaCha20 (src/hchacha20.rs) and of the secret connection's          *)
(* transcript hash (tendermint-rs secret_connection/transcript_hash.rs).   *)
(*                                                                         *)
(* The specifications share the variables:                                 *)
(*   Spec            the keyring operations (add, sign, default key) on    *)
(*                   the keyring of a one-chain registry;                  *)
(*   LoadSpec        softsign init over a two-chain registry whose         *)
(*                   keyrings may already hold keys of another provider;   *)
(*   LoadConfigSpec  load_config over every build and backend outcome;     *)
(*   SignSpec        interleaved sign requests on a shared keyring;        *)
(*   TranscriptSpec  the life of a TranscriptHash;                         *)
(*   HChaChaSpec     hchacha20, one pass of its loop at a time.            *)
(***************************************************************************)
EXTENDS Integers, Sequences, FiniteSets, TLC

\* ------------------------------------------------------------------ bounds
\* consensus keys are ConsensusKey(1) .. ConsensusKey(NumKeys)
NumKeys == 1
\* messages handed to sign_* are 1 .. NumMsgs
NumMsgs == 1
\* longest list of [[providers.softsign]] entries
MaxConfigs == 2
\* longest chain_ids list of one entry
MaxChainIds == 2
\* sign requests in flight at once on a shared keyring are 1 .. NumRequests
NumRequests == 2
\* the data folded into a transcript hash are <<>> and <<1>> .. <<NumData>>
NumData == 3
\* most updates of one transcript hash
MaxUpdates == 3
\* hchacha20 is called with NumHChaChaKeys keys and NumHChaChaInputs inputs
NumHChaChaKeys == 3
NumHChaChaInputs == 4

\* ------------------------------------------------------- Option and Result
None == [some |-> FALSE]
Some(x) == [some |-> TRUE, value |-> x]
Unit == "()"
Ok(v) == [ok |-> TRUE, value |-> v]
Err(e) == [ok |-> FALSE, err |-> e]
\* error::Error built by fail! / format_err!: a kind, the format string and
\* the displayed arguments
Error(kind, msg, args) == [kind |-> kind, msg |-> msg, args |-> args]

\* ------------------------------------------------------------ data model
AccountKey(k) == [type |-> "AccountKey", key |-> k]
ConsensusKey(k) == [type |-> "ConsensusKey", key |-> k]
TendermintKeys == {ConsensusKey(k) : k \in 1..NumKeys} \cup {AccountKey(1)}

\* Ord for TendermintKey, the order of the BTreeMap's keys() and values()
KeyLeq(a, b) ==
    \/ a.type = b.type /\ a.key <= b.key
    \/ a.type = "AccountKey" /\ b.type = "ConsensusKey"

SigningProviders == {"softsign", "yubihsm"}

\* Signer::new(provider, public_key, boxed signer)
Signer(provider, public_key) == [provider |-> provider, public_key |-> public_key]
Signers == {Signer(p, k) : p \in SigningProviders, k \in TendermintKeys}

Msgs == 1..NumMsgs

\* signer.sign(msg): the signature made by the boxed signer, or the
\* backend's failure
Signature(signer, msg) ==
    [by |-> signer.provider, public_key |-> signer.public_key, msg |-> msg]
BackendFailure == Error("SigningError", "signing operation failed", <<>>)
sign(signer, msg, backend_ok) ==
    IF backend_ok THEN Ok(Signature(signer, msg)) ELSE Err(BackendFailure)

\* self.format.serialize(public_key): the key as displayed
serialize(format, public_key) == <<format, public_key.type, public_key.key>>

\* KeyRing::new
new(format) == [ecdsa_keys |-> <<>>, ed25519_keys |-> <<>>, format |-> format]

\* BTreeMap::insert: the map with value stored under key, and the value
\* that was stored there
insert(map, key, value) ==
    [map |-> [k \in (DOMAIN map) \cup {key} |-> IF k = key THEN value ELSE map[k]],
     old |-> IF key \in DOMAIN map THEN Some(map[key]) ELSE None]

\* the first key of a non-empty map in key order
first_key(map) == CHOOSE k \in DOMAIN map : \A j \in DOMAIN map : KeyLeq(k, j)

key_type(public_key) ==
    IF public_key.type = "AccountKey" THEN "account" ELSE "consensus"

\* ------------------------------------------------------- KeyRing::add_*
\* each returns the keyring after the call, the Result and the info! records
\* faulty variant of add_ecdsa: a duplicate registration removes the entry
add_ecdsa_removing_duplicate(keyring, signer) ==
    LET provider == signer.provider
        public_key == signer.public_key
        public_key_serialized == serialize(keyring.format, public_key)
        info == <<[msg |-> "added ECDSA key", provider |-> provider,
                   key_type |-> key_type(public_key), key |-> public_key_serialized]>>
        ins == insert(keyring.ecdsa_keys, public_key, signer)
        removed == [k \in (DOMAIN keyring.ecdsa_keys) \ {public_key} |-> keyring.ecdsa_keys[k]]
    IN  [keyring |-> [keyring EXCEPT !.ecdsa_keys = IF ins.old.some THEN removed ELSE ins.map],
         emitted |-> info,
         result |-> IF ins.old.some
                    THEN Err(Error("InvalidKey", "duplicate ECDSA key already registered",
                                   <<provider, public_key_serialized, ins.old.value.provider>>))
                    ELSE Ok(Unit)]

add_ecdsa(keyring, signer) ==
    LET provider == signer.provider
        public_key == signer.public_key
        public_key_serialized == serialize(keyring.format, public_key)
        info == <<[msg |-> "added ECDSA key", provider |-> provider,
                   key_type |-> key_type(public_key), key |-> public_key_serialized]>>
        ins == insert(keyring.ecdsa_keys, public_key, signer)
    IN  [keyring |-> [keyring EXCEPT !.ecdsa_keys = ins.map],
         emitted |-> info,
         result |-> IF ins.old.some
                    THEN Err(Error("InvalidKey", "duplicate ECDSA key already registered",
                                   <<provider, public_key_serialized, ins.old.value.provider>>))
                    ELSE Ok(Unit)]

\* faulty variant of add_ed25519: the signer is stored in the ECDSA map
add_ed25519_into_ecdsa_map(keyring, signer) ==
    LET provider == signer.provider
        public_key == signer.public_key
        public_key_serialized == serialize(keyring.format, public_key)
        info == <<[msg |-> "added Ed25519 key", provider |-> provider,
                   key_type |-> key_type(public_key), key |-> public_key_serialized]>>
        ins == insert(keyring.ecdsa_keys, public_key, signer)
    IN  [keyring |-> [keyring EXCEPT !.ecdsa_keys = ins.map],
         emitted |-> info,
         result |-> IF ins.old.some
                    THEN Err(Error("InvalidKey", "duplicate Ed25519 key already registered",
                                   <<provider, public_key_serialized, ins.old.value.provider>>))
                    ELSE Ok(Unit)]

add_ed25519(keyring, signer) ==
    LET provider == signer.provider
        public_key == signer.public_key
        public_key_serialized == serialize(keyring.format, public_key)
        info == <<[msg |-> "added Ed25519 key", provider |-> provider,
                   key_type |-> key_type(public_key), key |-> public_key_serialized]>>
        ins == insert(keyring.ed25519_keys, public_key, signer)
    IN  [keyring |-> [keyring EXCEPT !.ed25519_keys = ins.map],
         emitted |-> info,
         result |-> IF ins.old.some
                    THEN Err(Error("InvalidKey", "duplicate Ed25519 key already registered",
                                   <<provider, public_key_serialized, ins.old.value.provider>>))
                    ELSE Ok(Unit)]

\* ------------------------------------------- KeyRing::default_ed25519_pubkey
\* keys.next(): the first key of the iterator over the map's keys, if any
keys_next(map) == IF DOMAIN map = {} THEN None ELSE Some(first_key(map))

\* Option::unwrap: the value, or a panic when there is none. A panic is kept
\* as a failure of its own kind, which no Error of the program has.
Panic == Err(Error("panic", "called Option::unwrap() on a None value", <<>>))
unwrap(option) == IF option.some THEN Ok(option.value) ELSE Panic

\* faulty variant of default_ed25519_pubkey: the guard lets an empty map through
default_ed25519_pubkey_unguarded(keyring) ==
    LET keys == DOMAIN keyring.ed25519_keys
    IN  IF Cardinality(keys) <= 1
        THEN unwrap(keys_next(keyring.ed25519_keys))
        ELSE Err(Error("InvalidKey", "expected only one key in keyring", <<>>))

default_ed25519_pubkey(keyring) ==
    LET keys == DOMAIN keyring.ed25519_keys
    IN  IF Cardinality(keys) = 1
        THEN unwrap(keys_next(keyring.ed25519_keys))
        ELSE Err(Error("InvalidKey", "expected only one key in keyring", <<>>))

\* ------------------------------------------------------ KeyRing::sign_*
\* the match that resolves the signer (the call of signer.sign is in the
\* actions SignEcdsa / SignEd25519)
\* faulty variant of sign_ecdsa: the ambiguity check is off by one
sign_ecdsa_off_by_one(keyring, public_key) ==
    IF public_key.some
    THEN IF public_key.value \in DOMAIN keyring.ecdsa_keys
         THEN Ok(keyring.ecdsa_keys[public_key.value])
         ELSE Err(Error("InvalidKey", "not in keyring", <<public_key.value>>))
    ELSE IF Cardinality(DOMAIN keyring.ecdsa_keys) > 2
         THEN Err(Error("SigningError", "expected only one key in keyring", <<>>))
         ELSE IF DOMAIN keyring.ecdsa_keys = {}
              THEN Err(Error("InvalidKey", "keyring is empty", <<>>))
              ELSE Ok(keyring.ecdsa_keys[first_key(keyring.ecdsa_keys)])

sign_ecdsa(keyring, public_key) ==
    IF public_key.some
    THEN IF public_key.value \in DOMAIN keyring.ecdsa_keys
         THEN Ok(keyring.ecdsa_keys[public_key.value])
         ELSE Err(Error("InvalidKey", "not in keyring", <<public_key.value>>))
    ELSE IF Cardinality(DOMAIN keyring.ecdsa_keys) > 1
         THEN Err(Error("SigningError", "expected only one key in keyring", <<>>))
         ELSE IF DOMAIN keyring.ecdsa_keys = {}
              THEN Err(Error("InvalidKey", "keyring is empty", <<>>))
              ELSE Ok(keyring.ecdsa_keys[first_key(keyring.ecdsa_keys)])

\* faulty variant of sign_ed25519: an unknown key falls back to the default signer
sign_ed25519_fallback(keyring, public_key) ==
    IF public_key.some /\ public_key.value \in DOMAIN keyring.ed25519_keys
    THEN Ok(keyring.ed25519_keys[public_key.value])
    ELSE IF Cardinality(DOMAIN keyring.ed25519_keys) > 1
         THEN Err(Error("SigningError", "expected only one key in keyring", <<>>))
         ELSE IF DOMAIN keyring.ed25519_keys = {}
              THEN Err(Error("InvalidKey", "keyring is empty", <<>>))
              ELSE Ok(keyring.ed25519_keys[first_key(keyring.ed25519_keys)])

sign_ed25519(keyring, public_key) ==
    IF public_key.some
    THEN IF public_key.value \in DOMAIN keyring.ed25519_keys
         THEN Ok(keyring.ed25519_keys[public_key.value])
         ELSE Err(Error("InvalidKey", "not in keyring", <<public_key.value>>))
    ELSE IF Cardinality(DOMAIN keyring.ed25519_keys) > 1
         THEN Err(Error("SigningError", "expected only one key in keyring", <<>>))
         ELSE IF DOMAIN keyring.ed25519_keys = {}
              THEN Err(Error("InvalidKey", "keyring is empty", <<>>))
              ELSE Ok(keyring.ed25519_keys[first_key(keyring.ed25519_keys)])

\* --------------------------------------------- config::provider::softsign
KeyFormats == {"raw", "base64", "json"}

\* faulty variant of KeyFormat_default: the default the TODO in the source plans
KeyFormat_default_base64 == "base64"

\* impl Default for KeyFormat
KeyFormat_default == "raw"

\* impl Display for KeyFormat (as_str)
KeyFormat_as_str(key_format) == key_format

ChainIds == {"chain-1", "chain-2", "chain-3"}
RegisteredChains == {"chain-1", "chain-2"}

\* SoftsignConfig
SoftsignConfig(chain_ids, key_format, path) ==
    [chain_ids |-> chain_ids, key_format |-> key_format, path |-> path]

\* ------------------------------------------------------------ key files
Repeat(s, n) == [i \in 1..(n * Len(s)) |-> s[((i - 1) % Len(s)) + 1]]

\* the text of the key files on disk; a path outside the domain has no file
Files ==
    [p \in {"/keys/garbage.key", "/keys/short.key", "/keys/zero.key", "/keys/good.key"} |->
        CASE p = "/keys/garbage.key" -> <<"n", "o", "t", " ", "b", "6", "4", "!">>
          [] p = "/keys/short.key" -> <<"A", "Q", "E", "B", "\n">>
          [] p = "/keys/zero.key" -> Repeat(<<"A">>, 43) \o <<"=", "\n">>
          [] p = "/keys/good.key" ->
                Repeat(<<"A", "Q", "E", "B">>, 10) \o <<"A", "Q", "E", "=", "\n", " ">>]

Paths == (DOMAIN Files) \cup {"/keys/missing.key"}

\* fs::read_to_string
read_to_string(path) ==
    IF path \in DOMAIN Files
    THEN Ok(Files[path])
    ELSE Err("No such file or directory (os error 2)")

\* str::trim_end
Whitespace == {" ", "\n", "\t", "\r"}
RECURSIVE trim_end(_)
trim_end(s) ==
    IF s # <<>> /\ s[Len(s)] \in Whitespace
    THEN trim_end(SubSeq(s, 1, Len(s) - 1))
    ELSE s

\* subtle_encoding::base64::decode (standard alphabet, padded, strict)
Base64Alphabet ==
    <<"A", "B", "C", "D", "E", "F", "G", "H", "I", "J", "K", "L", "M", "N", "O", "P",
      "Q", "R", "S", "T", "U", "V", "W", "X", "Y", "Z", "a", "b", "c", "d", "e", "f",
      "g", "h", "i", "j", "k", "l", "m", "n", "o", "p", "q", "r", "s", "t", "u", "v",
      "w", "x", "y", "z", "0", "1", "2", "3", "4", "5", "6", "7", "8", "9", "+", "/">>
IsBase64(c) == \E i \in DOMAIN Base64Alphabet : Base64Alphabet[i] = c
Sextet(c) == (CHOOSE i \in DOMAIN Base64Alphabet : Base64Alphabet[i] = c) - 1
Quantum(a, b, c, d) == ((Sextet(a) * 64 + Sextet(b)) * 64 + Sextet(c)) * 64 + Sextet(d)
Bytes3(n) == <<n \div 65536, (n \div 256) % 256, n % 256>>
RECURSIVE base64_decode(_)
base64_decode(s) ==
    IF s = <<>> THEN Ok(<<>>)
    ELSE IF Len(s) < 4 THEN Err("invalid encoding")
    ELSE LET rest == SubSeq(s, 5, Len(s))
         IN  IF \A i \in 1..4 : IsBase64(s[i])
             THEN LET r == base64_decode(rest)
                  IN  IF r.ok
                      THEN Ok(Bytes3(Quantum(s[1], s[2], s[3], s[4])) \o r.value)
                      ELSE r
             ELSE IF rest = <<>> /\ IsBase64(s[1]) /\ IsBase64(s[2]) /\ s[4] = "="
             THEN IF s[3] = "="
                  THEN Ok(SubSeq(Bytes3(Quantum(s[1], s[2], "A", "A")), 1, 1))
                  ELSE IF IsBase64(s[3])
                  THEN Ok(SubSeq(Bytes3(Quantum(s[1], s[2], s[3], "A")), 1, 2))
                  ELSE Err("invalid encoding")
             ELSE Err("invalid encoding")

\* signatory's SecretKey: TryFrom<&[u8]> takes exactly this many bytes
SECRET_KEY_SIZE == 32
SecretKey_try_from(bytes) ==
    IF Len(bytes) = SECRET_KEY_SIZE THEN Ok(bytes) ELSE Err("invalid length")

\* EcdsaSigner::from(&secret_key).public_key(): the point of the secret
\* scalar; the zero scalar has none. The point is abstracted to a key number.
RECURSIVE SumBytes(_)
SumBytes(bytes) == IF bytes = <<>> THEN 0 ELSE bytes[1] + SumBytes(Tail(bytes))
provider_public_key(secret_key) ==
    IF SumBytes(secret_key) = 0
    THEN Err("invalid secret key")
    ELSE Ok((SumBytes(secret_key) % NumKeys) + 1)

\* ---------------------------------------------------------- chain::Registry
\* get_chain_mut: the chain's state, or an error for an unregistered chain id
\* (the kind of that error is not fixed by the repository's sources here)
get_chain_mut(reg, chain_id) ==
    IF chain_id \in DOMAIN reg
    THEN Ok(chain_id)
    ELSE Err(Error("InvalidKey", "can't find chain", <<chain_id>>))

\* ------------------------------------------- keyring::ecdsa::softsign::init
\* faulty variant of add_to_chains: the loop ends after the first chain id
add_to_first_chain(reg, chain_ids, i, signer, em) ==
    IF i > Len(chain_ids)
    THEN [result |-> Ok(Unit), registry |-> reg, emitted |-> em]
    ELSE LET chain == get_chain_mut(reg, chain_ids[i])
         IN  IF ~chain.ok
             THEN [result |-> chain, registry |-> reg, emitted |-> em]
             ELSE LET r == add_ecdsa(reg[chain.value].keyring, signer)
                  IN  [result |-> r.result,
                       registry |-> [reg EXCEPT ![chain.value].keyring = r.keyring],
                       emitted |-> em \o r.emitted]

\* faulty variant of add_to_chains: the signer is registered with add_ed25519
RECURSIVE add_to_chains_ed25519(_, _, _, _, _)
add_to_chains_ed25519(reg, chain_ids, i, signer, em) ==
    IF i > Len(chain_ids)
    THEN [result |-> Ok(Unit), registry |-> reg, emitted |-> em]
    ELSE LET chain == get_chain_mut(reg, chain_ids[i])
         IN  IF ~chain.ok
             THEN [result |-> chain, registry |-> reg, emitted |-> em]
             ELSE LET r == add_ed25519(reg[chain.value].keyring, signer)
                      reg2 == [reg EXCEPT ![chain.value].keyring = r.keyring]
                  IN  IF ~r.result.ok
                      THEN [result |-> r.result, registry |-> reg2,
                            emitted |-> em \o r.emitted]
                      ELSE add_to_chains_ed25519(reg2, chain_ids, i + 1, signer,
                                                 em \o r.emitted)

\* the loop over config.chain_ids, from its i-th element on
RECURSIVE add_to_chains(_, _, _, _, _)
add_to_chains(reg, chain_ids, i, signer, em) ==
    IF i > Len(chain_ids)
    THEN [result |-> Ok(Unit), registry |-> reg, emitted |-> em]
    ELSE LET chain == get_chain_mut(reg, chain_ids[i])
         IN  IF ~chain.ok
             THEN [result |-> chain, registry |-> reg, emitted |-> em]
             ELSE LET r == add_ecdsa(reg[chain.value].keyring, signer)
                      reg2 == [reg EXCEPT ![chain.value].keyring = r.keyring]
                  IN  IF ~r.result.ok
                      THEN [result |-> r.result, registry |-> reg2,
                            emitted |-> em \o r.emitted]
                      ELSE add_to_chains(reg2, chain_ids, i + 1, signer, em \o r.emitted)

\* ------------------------------------------------------ secret buffers
\* a heap buffer: a String (cells are characters) or a Vec<u8> (cells are
\* bytes), and whether a Zeroizing wrapper owns it
NUL == "\\0"
Buffer(name, type, cells, zeroizing) ==
    [name |-> name, type |-> type, cells |-> cells, zeroizing |-> zeroizing]

\* faulty variant of Zeroizing_new: the value is kept without the wrapper
Zeroizing_new_unwrapped(name, type, cells) == Buffer(name, type, cells, FALSE)

\* Zeroizing::new(value)
Zeroizing_new(name, type, cells) == Buffer(name, type, cells, TRUE)

\* Zeroize: every cell of the buffer is overwritten with zero
zeroize(buffer) ==
    [buffer EXCEPT !.cells = [i \in DOMAIN buffer.cells |->
                                 IF buffer.type = "String" THEN NUL ELSE 0]]

\* the memory a buffer leaves behind when it goes out of scope: Zeroizing's
\* Drop zeroizes it, a plain String or Vec is freed as it is
drop(buffer) == IF buffer.zeroizing THEN zeroize(buffer) ELSE buffer

\* what init leaves behind when it returns before the loop
InitReturn(result, reg, reads, heap) ==
    [result |-> result, registry |-> reg, emitted |-> <<>>, reads |-> reads,
     heap |-> heap]

\* the body of init for the single entry config = configs[0]
init_config(chain_registry, config) ==
    LET key_format == IF config.key_format.some THEN config.key_format.value
                      ELSE KeyFormat_default
    IN  IF key_format # "base64"
        THEN InitReturn(Err(Error("ConfigError", "unsupported encoding for ECDSA key",
                                  <<KeyFormat_as_str(key_format), config.path>>)),
                        chain_registry, <<>>, <<>>)
        ELSE
        LET read == read_to_string(config.path)
            reads == <<config.path>>
        IN  IF ~read.ok
            THEN InitReturn(Err(Error("ConfigError", "couldn't read key from",
                                      <<config.path, read.err>>)),
                            chain_registry, reads, <<>>)
            ELSE
        LET secret_key_base64 == Zeroizing_new("secret_key_base64", "String", read.value)
            decoded == base64_decode(trim_end(secret_key_base64.cells))
        IN  IF ~decoded.ok
            THEN InitReturn(Err(Error("ConfigError", "can't decode key from",
                                      <<config.path, decoded.err>>)),
                            chain_registry, reads, <<drop(secret_key_base64)>>)
            ELSE
        LET secret_key_bytes == Zeroizing_new("secret_key_bytes", "Vec<u8>", decoded.value)
            secret_key == SecretKey_try_from(secret_key_bytes.cells)
            \* both buffers are locals of the match arm: they are dropped when
            \* the arm ends, by an early return or by yielding secret_key
            dropped == <<drop(secret_key_bytes), drop(secret_key_base64)>>
        IN  IF ~secret_key.ok
            THEN InitReturn(Err(Error("ConfigError", "can't decode key from",
                                      <<config.path, secret_key.err>>)),
                            chain_registry, reads, dropped)
            ELSE
        LET pk == provider_public_key(secret_key.value)
        IN  IF ~pk.ok
            THEN InitReturn(Err(Error("InvalidKey", "", <<>>)), chain_registry, reads, dropped)
            ELSE
        LET consensus_pubkey == ConsensusKey(pk.value)
            signer == Signer("softsign", consensus_pubkey)
            r == add_to_chains(chain_registry, config.chain_ids, 1, signer, <<>>)
        IN  [result |-> r.result, registry |-> r.registry, emitted |-> r.emitted,
             reads |-> reads, heap |-> dropped]

\* faulty variant of init: the check of configs.len() != 1 is missing, the first
\* entry is loaded whatever follows it
init_ignoring_extra_entries(chain_registry, cfgs) ==
    IF Len(cfgs) = 0 THEN InitReturn(Ok(Unit), chain_registry, <<>>, <<>>)
    ELSE init_config(chain_registry, cfgs[1])

init(chain_registry, cfgs) ==
    IF Len(cfgs) = 0 THEN InitReturn(Ok(Unit), chain_registry, <<>>, <<>>)
    ELSE IF Len(cfgs) # 1
    THEN InitReturn(Err(Error("ConfigError",
                              "expected one [providers.softsign] in config, found",
                              <<Len(cfgs)>>)),
                    chain_registry, <<>>, <<>>)
    ELSE init_config(chain_registry, cfgs[1])

\* ------------------------------------------------------------------ state
VARIABLES
    registry,    \* chain::Registry: chain id -> [keyring]
    configs,     \* the [[providers.softsign]] entries of the configuration
    last,        \* the last call: operation, arguments and Result
    pre,         \* the registry as it was when the last call began
    emitted,     \* the info! records the last call emitted
    invoked,     \* the Signer::sign calls the last call made
    file_reads,  \* the paths the last call read
    heap,        \* the secret buffers the last call has dropped, as left in memory
    features,    \* the signing backends compiled in (cargo features)
    backend_init,\* what each backend's init returns for the configuration
    init_calls,  \* the backend inits the last load_config has invoked, in order
    requests,    \* the sign requests in flight on the shared keyring
    hash_state,  \* TranscriptHash.hash_state
    transcript,  \* the data the TranscriptHash has been updated with, in order
    dropped,     \* the TranscriptHash has been dropped
    hchacha_key,    \* hchacha20's key
    hchacha_input,  \* hchacha20's input
    hchacha_state,  \* hchacha20's state: [u32; 16], once loaded
    hchacha_round,  \* the passes of hchacha20's loop that have run
    hchacha_output  \* what hchacha20 returned, once it has

keyring_vars == <<registry, configs, last, pre, emitted, invoked, file_reads, heap>>
loader_vars == <<features, backend_init, init_calls>>
request_vars == <<requests>>
transcript_vars == <<hash_state, transcript, dropped>>
hchacha_vars == <<hchacha_key, hchacha_input, hchacha_state, hchacha_round, hchacha_output>>
vars == <<keyring_vars, loader_vars, request_vars, transcript_vars, hchacha_vars>>

\* the parts of the state a specification does not use stay as they are here
NoLoader == features = {} /\ backend_init = <<>> /\ init_calls = <<>>
NoRequests == requests = <<>>
NoTranscript == hash_state = <<>> /\ transcript = <<>> /\ dropped = FALSE
NoHChaCha ==
    /\ hchacha_key = <<>> /\ hchacha_input = <<>>
    /\ hchacha_state = <<>> /\ hchacha_round = 0 /\ hchacha_output = None
outside_keyring == <<loader_vars, request_vars, transcript_vars, hchacha_vars>>

Call(op, chain, signer, public_key, msg, result) ==
    [op |-> op, chain |-> chain, signer |-> signer, public_key |-> public_key,
     msg |-> msg, result |-> result]

NoCall == Call("none", "", None, None, 0, Ok(Unit))

\* a registry of fresh keyrings for the given chains
Format(chain) == IF chain = "chain-1" THEN "bech32" ELSE "hex"
NewRegistry(chains) == [c \in chains |-> [keyring |-> new(Format(c))]]

Init ==
    /\ registry = NewRegistry({"chain-1"})
    /\ configs = <<>>
    /\ last = NoCall
    /\ pre = registry
    /\ emitted = <<>>
    /\ invoked = <<>>
    /\ file_reads = <<>>
    /\ heap = <<>>
    /\ NoLoader /\ NoRequests /\ NoTranscript /\ NoHChaCha

\* ---------------------------------------------------------------- actions
AddEcdsa(chain, signer) ==
    LET r == add_ecdsa(registry[chain].keyring, signer)
    IN  /\ registry' = [registry EXCEPT ![chain].keyring = r.keyring]
        /\ last' = Call("add_ecdsa", chain, Some(signer), None, 0, r.result)
        /\ pre' = registry
        /\ emitted' = r.emitted
        /\ invoked' = <<>>
        /\ file_reads' = <<>>
        /\ heap' = <<>>
        /\ UNCHANGED outside_keyring
        /\ UNCHANGED configs

AddEd25519(chain, signer) ==
    LET r == add_ed25519(registry[chain].keyring, signer)
    IN  /\ registry' = [registry EXCEPT ![chain].keyring = r.keyring]
        /\ last' = Call("add_ed25519", chain, Some(signer), None, 0, r.result)
        /\ pre' = registry
        /\ emitted' = r.emitted
        /\ invoked' = <<>>
        /\ file_reads' = <<>>
        /\ heap' = <<>>
        /\ UNCHANGED outside_keyring
        /\ UNCHANGED configs

DefaultEd25519Pubkey(chain) ==
    /\ last' = Call("default_ed25519_pubkey", chain, None, None, 0,
                    default_ed25519_pubkey(registry[chain].keyring))
    /\ pre' = registry
    /\ emitted' = <<>>
    /\ invoked' = <<>>
    /\ file_reads' = <<>>
    /\ heap' = <<>>
    /\ UNCHANGED outside_keyring
    /\ UNCHANGED <<registry, configs>>

SignEcdsa(chain, public_key, msg, backend_ok) ==
    LET signer == sign_ecdsa(registry[chain].keyring, public_key)
    IN  /\ last' = Call("sign_ecdsa", chain, None, public_key, msg,
                        IF signer.ok THEN sign(signer.value, msg, backend_ok) ELSE signer)
        /\ invoked' = IF signer.ok THEN <<[signer |-> signer.value, msg |-> msg]>> ELSE <<>>
        \* the backend's outcome is an input only when a signer is called
        /\ (~signer.ok => backend_ok)
        /\ pre' = registry
        /\ emitted' = <<>>
        /\ file_reads' = <<>>
        /\ heap' = <<>>
        /\ UNCHANGED outside_keyring
        /\ UNCHANGED <<registry, configs>>

SignEd25519(chain, public_key, msg, backend_ok) ==
    LET signer == sign_ed25519(registry[chain].keyring, public_key)
    IN  /\ last' = Call("sign_ed25519", chain, None, public_key, msg,
                        IF signer.ok THEN sign(signer.value, msg, backend_ok) ELSE signer)
        /\ invoked' = IF signer.ok THEN <<[signer |-> signer.value, msg |-> msg]>> ELSE <<>>
        /\ (~signer.ok => backend_ok)
        /\ pre' = registry
        /\ emitted' = <<>>
        /\ file_reads' = <<>>
        /\ heap' = <<>>
        /\ UNCHANGED outside_keyring
        /\ UNCHANGED <<registry, configs>>

OptionalKeys == {None} \cup {Some(k) : k \in TendermintKeys}

Next ==
    \/ \E chain \in DOMAIN registry, signer \in Signers : AddEcdsa(chain, signer)
    \/ \E chain \in DOMAIN registry, signer \in Signers : AddEd25519(chain, signer)
    \/ \E chain \in DOMAIN registry : DefaultEd25519Pubkey(chain)
    \/ \E chain \in DOMAIN registry, pk \in OptionalKeys, msg \in Msgs, b \in BOOLEAN :
           SignEcdsa(chain, pk, msg, b)
    \/ \E chain \in DOMAIN registry, pk \in OptionalKeys, msg \in Msgs, b \in BOOLEAN :
           SignEd25519(chain, pk, msg, b)

Spec == Init /\ [][Next]_vars

\* ====================================================== keyring claims
\* the map an add_* or sign_* call works on, in the given registry
IsAdd == last.op \in {"add_ecdsa", "add_ed25519"}
IsSign == last.op \in {"sign_ecdsa", "sign_ed25519"}
KeysOf(reg) ==
    IF last.op \in {"add_ecdsa", "sign_ecdsa"}
    THEN reg[last.chain].keyring.ecdsa_keys
    ELSE reg[last.chain].keyring.ed25519_keys

IsDuplicateError(result) ==
    /\ ~result.ok
    /\ result.err.msg \in {"duplicate ECDSA key already registered",
                           "duplicate Ed25519 key already registered"}
IsUnknownKeyError(result) == ~result.ok /\ result.err.msg = "not in keyring"
IsEmptyError(result) == ~result.ok /\ result.err.msg = "keyring is empty"
IsAmbiguousError(result) ==
    ~result.ok /\ result.err.msg = "expected only one key in keyring"

\* the last call handed msg to this signer, to no other, and returned what
\* the signer returned
DelegatedTo(signer) ==
    /\ invoked = <<[signer |-> signer, msg |-> last.msg]>>
    /\ last.result \in {Ok(Signature(signer, last.msg)), Err(BackendFailure)}

\* C1: an add_ecdsa / add_ed25519 of a different signer under a public key
\* that is already registered fails with the already-registered error and
\* leaves the first signer stored under that key.
C1_DuplicateAddKeepsFirst ==
    (/\ IsAdd
     /\ last.signer.value.public_key \in DOMAIN KeysOf(pre)
     /\ KeysOf(pre)[last.signer.value.public_key] # last.signer.value)
    => /\ IsDuplicateError(last.result)
       /\ KeysOf(registry)[last.signer.value.public_key]
              = KeysOf(pre)[last.signer.value.public_key]

\* C2: sign_ecdsa / sign_ed25519 without a public key delegates to the only
\* signer of the map when there is exactly one, fails with the empty-keyring
\* error when there is none, and fails with the ambiguous error, invoking no
\* signer, when there are two or more.
C2_SignWithoutKey ==
    (IsSign /\ ~last.public_key.some)
    => LET map == KeysOf(pre)
           n == Cardinality(DOMAIN map)
       IN  /\ n = 1 => \E k \in DOMAIN map : DelegatedTo(map[k])
           /\ n = 0 => IsEmptyError(last.result) /\ invoked = <<>>
           /\ n >= 2 => IsAmbiguousError(last.result) /\ invoked = <<>>

C2_Witness ==
    /\ IsSign /\ ~last.public_key.some
    /\ Cardinality(DOMAIN KeysOf(pre)) >= 2
    /\ IsAmbiguousError(last.result)

\* C3: sign_ecdsa / sign_ed25519 with Some(pk) fails with the unknown-key
\* error exactly when pk is not a key of the map, and otherwise delegates to
\* the signer stored under pk, however many keys are registered.
C3_SignWithKey ==
    (IsSign /\ last.public_key.some)
    => LET map == KeysOf(pre)
           pk == last.public_key.value
       IN  /\ IsUnknownKeyError(last.result) <=> pk \notin DOMAIN map
           /\ pk \in DOMAIN map => DelegatedTo(map[pk])
           /\ pk \notin DOMAIN map => invoked = <<>>

C3_Witness ==
    /\ IsSign /\ last.public_key.some
    /\ last.public_key.value \in DOMAIN KeysOf(pre)
    /\ Cardinality(DOMAIN KeysOf(pre)) >= 2
    /\ last.result.ok
    /\ last.result.value.public_key = last.public_key.value

\* C4: default_ed25519_pubkey returns a key exactly when one Ed25519 key is
\* registered, and then that key; with no key it fails with an empty-keyring
\* error and with two or more keys with a different, ambiguous-default error.
C4_DefaultKeyErrorsDistinct ==
    (last.op = "default_ed25519_pubkey")
    => LET map == pre[last.chain].keyring.ed25519_keys
           n == Cardinality(DOMAIN map)
       IN  /\ last.result.ok <=> n = 1
           /\ n = 1 => last.result.value \in DOMAIN map
           /\ n = 0 => IsEmptyError(last.result) /\ ~IsAmbiguousError(last.result)
           /\ n >= 2 => IsAmbiguousError(last.result) /\ ~IsEmptyError(last.result)

\* C10: add_ecdsa / add_ed25519 emit the "added ... key" record only when the
\* add succeeds; a call that returns the duplicate-key error emits none.
C10_AddedRecordOnlyOnSuccess ==
    (IsAdd /\ IsDuplicateError(last.result)) => emitted = <<>>

\* the last call asked for the default key: sign_* without a public key, or
\* default_ed25519_pubkey
AsksDefault ==
    \/ IsSign /\ ~last.public_key.some
    \/ last.op = "default_ed25519_pubkey"

\* C11: in every keyring operation a duplicate registration and an unknown
\* key fail with kind InvalidKey, and a default-key request on a map of more
\* than one key (sign_* without a key, default_ed25519_pubkey) fails with
\* kind SigningError.
C11_ErrorKinds ==
    /\ IsDuplicateError(last.result) => last.result.err.kind = "InvalidKey"
    /\ IsUnknownKeyError(last.result) => last.result.err.kind = "InvalidKey"
    /\ (AsksDefault /\ Cardinality(DOMAIN KeysOf(pre)) > 1)
       => ~last.result.ok /\ last.result.err.kind = "SigningError"

IsPanic(result) == ~result.ok /\ result.err.kind = "panic"
IsRead == IsSign \/ last.op = "default_ed25519_pubkey"

\* C16: sign_ecdsa, sign_ed25519 and default_ed25519_pubkey never panic: each
\* returns a value or an Error of the program's kinds, and
\* default_ed25519_pubkey reaches its unwrap only on a map that holds a key.
C16_NoPanic ==
    IsRead => /\ ~IsPanic(last.result)
              /\ last.result.ok \/ last.result.err.kind \in {"InvalidKey", "SigningError"}
              /\ (last.op = "default_ed25519_pubkey" /\ last.result.ok)
                 => last.result.value \in DOMAIN KeysOf(pre)

\* default_ed25519_pubkey and sign_* without a key on an empty map: the case
\* where an unguarded unwrap would panic
C16_Witness ==
    /\ AsksDefault
    /\ DOMAIN KeysOf(pre) = {}
    /\ ~last.result.ok /\ last.result.err.kind = "InvalidKey"
    /\ last.op = "default_ed25519_pubkey"

\* the keyring the last call began on, with one of its maps emptied
WithoutEcdsa == [pre[last.chain].keyring EXCEPT !.ecdsa_keys = <<>>]
WithoutEd25519 == [pre[last.chain].keyring EXCEPT !.ed25519_keys = <<>>]

\* the last sign_* call ended as this resolution of its signer prescribes
EndsAs(resolution) ==
    IF resolution.ok THEN DelegatedTo(resolution.value)
    ELSE last.result = resolution /\ invoked = <<>>

\* C19: the two maps are independent. add_ecdsa leaves ed25519_keys as it
\* was and add_ed25519 leaves ecdsa_keys as it was; a default-key request on
\* one map ends as it would with the other map empty; and a public key that
\* is not yet in the map an add works on is registered, whether or not the
\* other map holds it.
C19_MapsIndependent ==
    /\ last.op = "add_ecdsa"
       => registry[last.chain].keyring.ed25519_keys = pre[last.chain].keyring.ed25519_keys
    /\ last.op = "add_ed25519"
       => registry[last.chain].keyring.ecdsa_keys = pre[last.chain].keyring.ecdsa_keys
    /\ (last.op = "sign_ed25519" /\ ~last.public_key.some)
       => EndsAs(sign_ed25519(WithoutEcdsa, None))
    /\ last.op = "default_ed25519_pubkey"
       => last.result = default_ed25519_pubkey(WithoutEcdsa)
    /\ (last.op = "sign_ecdsa" /\ ~last.public_key.some)
       => EndsAs(sign_ecdsa(WithoutEd25519, None))
    /\ (IsAdd /\ last.signer.value.public_key \notin DOMAIN KeysOf(pre))
       => /\ last.result.ok
          /\ KeysOf(registry)[last.signer.value.public_key] = last.signer.value

\* add_ed25519 of a public key that the ECDSA map already holds: it is
\* registered, and both maps hold the key
C19_Witness ==
    /\ last.op = "add_ed25519"
    /\ last.signer.value.public_key \in DOMAIN pre[last.chain].keyring.ecdsa_keys
    /\ last.signer.value.public_key \notin DOMAIN pre[last.chain].keyring.ed25519_keys
    /\ last.result.ok
    /\ last.signer.value.public_key \in DOMAIN registry[last.chain].keyring.ecdsa_keys
    /\ last.signer.value.public_key \in DOMAIN registry[last.chain].keyring.ed25519_keys

\* one step keeps what a keyring can resolve: its keys, the signers found by
\* key, and an ambiguous default
Grows(keyring, keyring2) ==
    /\ DOMAIN keyring.ecdsa_keys \subseteq DOMAIN keyring2.ecdsa_keys
    /\ DOMAIN keyring.ed25519_keys \subseteq DOMAIN keyring2.ed25519_keys
    /\ \A pk \in TendermintKeys :
          /\ sign_ecdsa(keyring, Some(pk)).ok
             => ~IsUnknownKeyError(sign_ecdsa(keyring2, Some(pk)))
          /\ sign_ed25519(keyring, Some(pk)).ok
             => ~IsUnknownKeyError(sign_ed25519(keyring2, Some(pk)))
    /\ IsAmbiguousError(sign_ecdsa(keyring, None))
       => IsAmbiguousError(sign_ecdsa(keyring2, None))
    /\ IsAmbiguousError(sign_ed25519(keyring, None))
       => IsAmbiguousError(sign_ed25519(keyring2, None))

SameSize(keyring, keyring2) ==
    /\ Cardinality(DOMAIN keyring.ecdsa_keys) = Cardinality(DOMAIN keyring2.ecdsa_keys)
    /\ Cardinality(DOMAIN keyring.ed25519_keys) = Cardinality(DOMAIN keyring2.ed25519_keys)

\* C20: a keyring only grows. No step removes a key from either map, a failed
\* add leaves the number of keys of both maps as it was, a sign_*(Some(pk))
\* that resolves a signer resolves one after every later step, and a
\* sign_*(None) that is ambiguous stays ambiguous.
C20_KeyringOnlyGrows ==
    [][\A c \in DOMAIN registry :
          /\ Grows(registry[c].keyring, registry'[c].keyring)
          /\ (last'.op \in {"add_ecdsa", "add_ed25519"} /\ ~last'.result.ok)
             => SameSize(registry[c].keyring, registry'[c].keyring)]_vars

\* a failed add on a keyring whose map already held two keys, both still
\* there afterwards
C20_Witness ==
    /\ IsAdd /\ ~last.result.ok
    /\ Cardinality(DOMAIN KeysOf(pre)) >= 2
    /\ DOMAIN KeysOf(registry) = DOMAIN KeysOf(pre)

\* ------------------------------------------------- provider loading
\* chain_ids lists: up to MaxChainIds chain ids, repeats and unregistered
\* ids included
ChainIdLists == UNION {[1..n -> ChainIds] : n \in 0..MaxChainIds}

SoftsignConfigs ==
    {SoftsignConfig(c, f, p) :
        c \in ChainIdLists, f \in {None} \cup {Some(k) : k \in KeyFormats}, p \in Paths}

\* lists of two or more entries are drawn from entries that would load alone
LoadableConfigs ==
    {SoftsignConfig(<<"chain-1">>, f, "/keys/good.key") : f \in {None, Some("base64")}}

ConfigLists ==
    {<<>>} \cup {<<c>> : c \in SoftsignConfigs}
           \cup UNION {[1..n -> LoadableConfigs] : n \in 2..MaxConfigs}

\* keyrings as another provider's loader may have left them: fresh, or
\* holding one ECDSA key of that provider
ForeignSigners == {s \in Signers : s.provider # "softsign"}
LoadedKeyrings(chain) ==
    {new(Format(chain))}
        \cup {add_ecdsa(new(Format(chain)), s).keyring : s \in ForeignSigners}
LoadedRegistries ==
    {[c \in RegisteredChains |-> [keyring |-> k[c]]] :
        k \in {f \in [RegisteredChains -> UNION {LoadedKeyrings(c) : c \in RegisteredChains}] :
                  \A c \in RegisteredChains : f[c] \in LoadedKeyrings(c)}}

LoadInit ==
    /\ registry \in LoadedRegistries
    /\ configs \in ConfigLists
    /\ last = NoCall
    /\ pre = registry
    /\ emitted = <<>>
    /\ invoked = <<>>
    /\ file_reads = <<>>
    /\ heap = <<>>
    /\ NoLoader /\ NoRequests /\ NoTranscript /\ NoHChaCha

SoftsignInit ==
    LET r == init(registry, configs)
    IN  /\ registry' = r.registry
        /\ last' = Call("init", "", None, None, 0, r.result)
        /\ pre' = registry
        /\ emitted' = r.emitted
        /\ invoked' = <<>>
        /\ file_reads' = r.reads
        /\ heap' = r.heap
        /\ UNCHANGED outside_keyring
        /\ UNCHANGED configs

LoadNext == SoftsignInit

LoadSpec == LoadInit /\ [][LoadNext]_vars

\* ================================================= provider-loading claims
InitReturned == last.op = "init"
IsConfigError(result) == ~result.ok /\ result.err.kind = "ConfigError"

\* the format an entry resolves to: the one it names, raw when it names none
ResolvedFormat(config) ==
    IF config.key_format.some THEN config.key_format.value ELSE "raw"

\* /keys/good.key holds the base64 text of 32 bytes 0x01 and a line end; the
\* key the provider derives from that secret, and the signer init builds
GoodSecret == [i \in 1..32 |-> 1]
DerivedKey == ConsensusKey(provider_public_key(GoodSecret).value)
SoftSigner == Signer("softsign", DerivedKey)

Distinct(seq) == \A i, j \in DOMAIN seq : seq[i] = seq[j] => i = j
Range(seq) == {seq[i] : i \in DOMAIN seq}

\* C5: whenever init returns an error, every keyring of the registry is as
\* it was before the call (no partial initialization).
C5_FailedInitChangesNothing ==
    (InitReturned /\ ~last.result.ok) => registry = pre

\* C6: init with no entry succeeds and leaves the registry unchanged; with
\* two or more entries it fails with a ConfigError, having read no key file
\* and changed nothing; only with exactly one entry does it load a key.
C6_EntryCount ==
    InitReturned
    => /\ Len(configs) = 0
            => last.result = Ok(Unit) /\ registry = pre /\ file_reads = <<>>
       /\ Len(configs) >= 2
            => IsConfigError(last.result) /\ registry = pre /\ file_reads = <<>>
       /\ (file_reads # <<>> \/ registry # pre) => Len(configs) = 1

C6_Witness ==
    /\ InitReturned
    /\ Len(configs) >= 2
    /\ \A i \in DOMAIN configs : ResolvedFormat(configs[i]) = "base64"
    /\ IsConfigError(last.result)

\* C7: init with exactly one entry decodes a key only when the resolved
\* format is base64; for raw, json and an unspecified format (raw) it fails
\* with a ConfigError naming the format and the path, having read no file
\* and changed no keyring.
C7_OnlyBase64 ==
    (InitReturned /\ Len(configs) = 1)
    => LET config == configs[1]
           format == ResolvedFormat(config)
       IN  /\ format # "base64"
                => /\ IsConfigError(last.result)
                   /\ last.result.err.args = <<format, config.path>>
                   /\ file_reads = <<>>
                   /\ registry = pre
           /\ (last.result.ok \/ file_reads # <<>>) => format = "base64"

C7_Witness ==
    /\ InitReturned /\ Len(configs) = 1
    /\ ~configs[1].key_format.some
    /\ configs[1].path = "/keys/good.key"
    /\ configs[1].chain_ids = <<"chain-1", "chain-2">>
    /\ IsConfigError(last.result)

\* C8: init with one valid base64 entry naming n distinct registered chains,
\* none of whose keyrings holds the derived key, succeeds; each named chain's
\* keyring then holds exactly one more signer, the software signer under the
\* derived public key, and every other keyring is unchanged.
C8Case ==
    /\ InitReturned /\ Len(configs) = 1
    /\ configs[1].key_format = Some("base64")
    /\ configs[1].path = "/keys/good.key"
    /\ Range(configs[1].chain_ids) \subseteq DOMAIN pre
    /\ Distinct(configs[1].chain_ids)
    /\ \A c \in Range(configs[1].chain_ids) :
           DerivedKey \notin DOMAIN pre[c].keyring.ecdsa_keys

C9Case ==
    /\ InitReturned /\ Len(configs) = 1
    /\ configs[1].key_format = Some("base64")
    /\ Len(configs[1].chain_ids) = 1
    /\ configs[1].chain_ids[1] \in DOMAIN pre
    /\ pre[configs[1].chain_ids[1]].keyring = new(Format(configs[1].chain_ids[1]))
    /\ last.result.ok

HoldsOnly(keyring, signer) ==
    LET held == {keyring.ecdsa_keys[k] : k \in DOMAIN keyring.ecdsa_keys}
                   \cup {keyring.ed25519_keys[k] : k \in DOMAIN keyring.ed25519_keys}
    IN  /\ held = {signer}
        /\ Cardinality(DOMAIN keyring.ecdsa_keys)
              + Cardinality(DOMAIN keyring.ed25519_keys) = 1

C9_SignEd25519AfterInit ==
    C9Case
    => LET keyring == registry[configs[1].chain_ids[1]].keyring
       IN  /\ HoldsOnly(keyring, SoftSigner)
           /\ sign_ed25519(keyring, None) = Ok(SoftSigner)

\* C9 (amended): ... and sign_ecdsa(None, msg) delegates to that signer, the
\* key being registered in the ECDSA map.
C9_SignEcdsaAfterInit ==
    C9Case
    => LET keyring == registry[configs[1].chain_ids[1]].keyring
       IN  /\ HoldsOnly(keyring, SoftSigner)
           /\ DOMAIN keyring.ecdsa_keys = {DerivedKey}
           /\ sign_ecdsa(keyring, None) = Ok(SoftSigner)
           /\ \A msg \in Msgs :
                 sign(sign_ecdsa(keyring, None).value, msg, TRUE)
                     = Ok([by |-> "softsign", public_key |-> DerivedKey, msg |-> msg])

C9_Witness ==
    /\ C9Case
    /\ configs[1].path = "/keys/good.key"
    /\ registry # pre

\* every cell of the buffer holds zero
IsZeroed(buffer) ==
    \A i \in DOMAIN buffer.cells :
        buffer.cells[i] = IF buffer.type = "String" THEN NUL ELSE 0

\* the buffers that init has filled with secret material by the time it
\* returns: the text of the key file once it was read, and the decoded
\* bytes once the text was decoded
FileWasRead ==
    /\ InitReturned /\ file_reads # <<>>
    /\ file_reads[1] \in DOMAIN Files
TextWasDecoded ==
    FileWasRead /\ base64_decode(trim_end(Files[file_reads[1]])).ok
HeapHolds(name, length) ==
    \E i \in DOMAIN heap : heap[i].name = name /\ Len(heap[i].cells) = length

\* C18: when init returns, normally or with any error, the buffer of the key
\* file's text and the buffer of the base64-decoded bytes have been zeroed:
\* every secret buffer it filled is left in memory with all cells zero.
C18_SecretBuffersZeroed ==
    InitReturned
    => /\ \A i \in DOMAIN heap : IsZeroed(heap[i])
       /\ FileWasRead
          => HeapHolds("secret_key_base64", Len(Files[file_reads[1]]))
       /\ TextWasDecoded
          => HeapHolds("secret_key_bytes",
                       Len(base64_decode(trim_end(Files[file_reads[1]])).value))

\* init returns an error from the registration loop after a key of 32
\* nonzero bytes was read and decoded
C18_Witness ==
    /\ InitReturned /\ ~last.result.ok
    /\ last.result.err.msg \in {"can't find chain", "duplicate ECDSA key already registered"}
    /\ file_reads = <<"/keys/good.key">>
    /\ HeapHolds("secret_key_base64", Len(Files["/keys/good.key"]))
    /\ HeapHolds("secret_key_bytes", SECRET_KEY_SIZE)

\* ====================================================== KeyRing::load_config
\* the signing backends in the order of load_config's statements
Backends == <<"softsign", "yubihsm", "ledgertm">>

\* what the init of a backend can return; an error names its backend. The
\* inits called by load_config (keyring::ed25519::*::init) are abstracted to
\* their Result: what they register is not part of this specification.
InitResults(backend) ==
    {Ok(Unit),
     Err(Error("ConfigError", "backend init failed", <<backend>>)),
     Err(Error("InvalidKey", "backend init failed", <<backend>>))}

\* the calls a backend's statement adds: one when the backend is compiled in
InitCall(compiled, backend) == IF backend \in compiled THEN <<backend>> ELSE <<>>

\* faulty variant of load_config: the softsign statement lacks the `?`
load_config_ignoring_softsign_error(compiled, inits) ==
    LET softsign == InitCall(compiled, "softsign")
        yubihsm == softsign \o InitCall(compiled, "yubihsm")
    IN  IF "yubihsm" \in compiled /\ ~inits["yubihsm"].ok
        THEN [result |-> inits["yubihsm"], calls |-> yubihsm]
        ELSE
    LET ledgertm == yubihsm \o InitCall(compiled, "ledgertm")
    IN  IF "ledgertm" \in compiled /\ ~inits["ledgertm"].ok
        THEN [result |-> inits["ledgertm"], calls |-> ledgertm]
        ELSE [result |-> Ok(Unit), calls |-> ledgertm]

\* load_config: the Result and the inits invoked, in order
load_config(compiled, inits) ==
    LET softsign == InitCall(compiled, "softsign")
    IN  IF "softsign" \in compiled /\ ~inits["softsign"].ok
        THEN [result |-> inits["softsign"], calls |-> softsign]
        ELSE
    LET yubihsm == softsign \o InitCall(compiled, "yubihsm")
    IN  IF "yubihsm" \in compiled /\ ~inits["yubihsm"].ok
        THEN [result |-> inits["yubihsm"], calls |-> yubihsm]
        ELSE
    LET ledgertm == yubihsm \o InitCall(compiled, "ledgertm")
    IN  IF "ledgertm" \in compiled /\ ~inits["ledgertm"].ok
        THEN [result |-> inits["ledgertm"], calls |-> ledgertm]
        ELSE [result |-> Ok(Unit), calls |-> ledgertm]

BackendNames == {Backends[i] : i \in DOMAIN Backends}

\* any build (set of compiled-in backends) and any outcome of each init
LoadConfigInit ==
    /\ registry = NewRegistry({"chain-1"})
    /\ configs = <<>>
    /\ last = NoCall
    /\ pre = registry
    /\ emitted = <<>>
    /\ invoked = <<>>
    /\ file_reads = <<>>
    /\ heap = <<>>
    /\ features \in SUBSET BackendNames
    /\ backend_init \in {f \in [BackendNames -> UNION {InitResults(b) : b \in BackendNames}] :
                            \A b \in BackendNames : f[b] \in InitResults(b)}
    /\ init_calls = <<>>
    /\ NoRequests /\ NoTranscript /\ NoHChaCha

LoadConfig ==
    LET r == load_config(features, backend_init)
    IN  /\ last' = Call("load_config", "", None, None, 0, r.result)
        /\ init_calls' = r.calls
        /\ pre' = registry
        /\ UNCHANGED <<registry, configs, emitted, invoked, file_reads, heap,
                       features, backend_init,
                       request_vars, transcript_vars, hchacha_vars>>

LoadConfigNext == LoadConfig

LoadConfigSpec == LoadConfigInit /\ [][LoadConfigNext]_vars

\* ------------------------------------------------------ load_config claims
\* the compiled-in backends in load_config's order
Compiled == SelectSeq(Backends, LAMBDA b : b \in features)
IsPrefix(s, t) == Len(s) <= Len(t) /\ s = SubSeq(t, 1, Len(s))
Failing == {i \in DOMAIN Compiled : ~backend_init[Compiled[i]].ok}

\* C12: load_config invokes the init of the compiled-in backends in the
\* order softsign, yubihsm, ledgertm; it returns the error of the first that
\* fails and invokes none after it; it returns success only when every
\* compiled-in backend's init succeeded.
C12_LoadConfigOrder ==
    (last.op = "load_config")
    => /\ IsPrefix(init_calls, Compiled)
       /\ Failing = {}
          => last.result = Ok(Unit) /\ init_calls = Compiled
       /\ Failing # {}
          => LET first == CHOOSE i \in Failing : \A j \in Failing : i <= j
             IN  /\ last.result = backend_init[Compiled[first]]
                 /\ init_calls = SubSeq(Compiled, 1, first)

\* all three backends are compiled in, softsign succeeds and yubihsm fails:
\* ledgertm is not invoked
C12_Witness ==
    /\ last.op = "load_config"
    /\ features = BackendNames
    /\ backend_init["softsign"].ok /\ ~backend_init["yubihsm"].ok
    /\ init_calls = <<"softsign", "yubihsm">>
    /\ last.result = backend_init["yubihsm"]

\* ============================================ sign requests on a shared keyring
\* A keyring is shared by reference (&self) once the providers are loaded.
\* A request first resolves its signer in the map (the match of sign_*, the
\* whole of default_ed25519_pubkey) and then, if it found one, calls
\* signer.sign; the steps of different requests interleave.
Requests == 1..NumRequests
ReadOps == {"sign_ecdsa", "sign_ed25519", "default_ed25519_pubkey"}
SharedChain == "chain-1"

Request(pc, op, public_key, msg, signer, result) ==
    [pc |-> pc, op |-> op, public_key |-> public_key, msg |-> msg,
     signer |-> signer, result |-> result]
IdleRequest == Request("idle", "none", None, 0, None, Ok(Unit))

\* the first step of a read operation on the keyring
resolve(keyring, op, public_key) ==
    CASE op = "sign_ecdsa" -> sign_ecdsa(keyring, public_key)
      [] op = "sign_ed25519" -> sign_ed25519(keyring, public_key)
      [] op = "default_ed25519_pubkey" -> default_ed25519_pubkey(keyring)

\* the n smallest keys, and a map that holds a software signer for each key
KeysBelow(n) ==
    {k \in TendermintKeys : Cardinality({j \in TendermintKeys : KeyLeq(j, k)}) <= n}
MapOf(keys) == IF keys = {} THEN <<>> ELSE [k \in keys |-> Signer("softsign", k)]

\* the keyrings a provider load may have left: any number of keys in each map
SharedKeyrings ==
    {[new(Format(SharedChain)) EXCEPT !.ecdsa_keys = MapOf(KeysBelow(i)),
                                      !.ed25519_keys = MapOf(KeysBelow(j))] :
        i \in 0..Cardinality(TendermintKeys), j \in 0..Cardinality(TendermintKeys)}

SignInit ==
    /\ registry \in {[c \in {SharedChain} |-> [keyring |-> k]] : k \in SharedKeyrings}
    /\ configs = <<>>
    /\ last = NoCall
    /\ pre = registry
    /\ emitted = <<>>
    /\ invoked = <<>>
    /\ file_reads = <<>>
    /\ heap = <<>>
    /\ requests = [r \in Requests |-> IdleRequest]
    /\ NoLoader /\ NoTranscript /\ NoHChaCha

\* faulty variant of Resolve: the signer is taken out of the map
Resolve_taking_signer(r, op, public_key) ==
    /\ requests[r].pc = "idle"
    /\ op = "default_ed25519_pubkey" => ~public_key.some
    /\ LET keyring == registry[SharedChain].keyring
           found == resolve(keyring, op, public_key)
           without(map, signer) == [k \in (DOMAIN map) \ {signer.public_key} |-> map[k]]
       IN  IF op # "default_ed25519_pubkey" /\ found.ok
           THEN /\ requests' = [requests EXCEPT ![r] =
                      Request("signing", op, public_key, r, Some(found.value), Ok(Unit))]
                /\ registry' = [registry EXCEPT ![SharedChain].keyring =
                      IF op = "sign_ecdsa"
                      THEN [keyring EXCEPT !.ecdsa_keys = without(@, found.value)]
                      ELSE [keyring EXCEPT !.ed25519_keys = without(@, found.value)]]
           ELSE /\ requests' = [requests EXCEPT ![r] =
                      Request("done", op, public_key, r, None, found)]
                /\ UNCHANGED registry
    /\ UNCHANGED <<configs, last, pre, emitted, invoked, file_reads, heap,
                   loader_vars, transcript_vars, hchacha_vars>>

\* request r calls op: the map is read; an error, or the key of
\* default_ed25519_pubkey, is returned at once
Resolve(r, op, public_key) ==
    /\ requests[r].pc = "idle"
    /\ op = "default_ed25519_pubkey" => ~public_key.some
    /\ LET found == resolve(registry[SharedChain].keyring, op, public_key)
       IN  requests' = [requests EXCEPT ![r] =
               IF op # "default_ed25519_pubkey" /\ found.ok
               THEN Request("signing", op, public_key, r, Some(found.value), Ok(Unit))
               ELSE Request("done", op, public_key, r, None, found)]
    /\ UNCHANGED <<keyring_vars, loader_vars, transcript_vars, hchacha_vars>>

\* request r's signer.sign(msg) returns
BackendSign(r, backend_ok) ==
    /\ requests[r].pc = "signing"
    /\ requests' = [requests EXCEPT ![r] =
           [@ EXCEPT !.pc = "done",
                     !.result = sign(requests[r].signer.value, requests[r].msg, backend_ok)]]
    /\ UNCHANGED <<keyring_vars, loader_vars, transcript_vars, hchacha_vars>>

SignNext ==
    \/ \E r \in Requests, op \in ReadOps, pk \in OptionalKeys : Resolve(r, op, pk)
    \/ \E r \in Requests, b \in BOOLEAN : BackendSign(r, b)

SignSpec == SignInit /\ [][SignNext]_vars

\* ------------------------------------------------ shared-keyring claims
\* what a finished request returns when it is the only one on the keyring
\* as it was loaded
Alone(request) ==
    LET found == resolve(pre[SharedChain].keyring, request.op, request.public_key)
    IN  IF request.op # "default_ed25519_pubkey" /\ found.ok
        THEN {sign(found.value, request.msg, b) : b \in BOOLEAN}
        ELSE {found}

\* C17: sign_ecdsa, sign_ed25519 and default_ed25519_pubkey leave both maps
\* and the format of the keyring as they were, whether they succeed or fail,
\* so under any interleaving of requests on a shared keyring each request
\* returns what it returns when it runs alone.
C17_ReadsDoNotInterfere ==
    /\ registry = pre
    /\ \A r \in Requests :
          requests[r].pc = "done" => requests[r].result \in Alone(requests[r])

\* two requests interleave on the same map: one has finished with a
\* signature while the other, which began earlier or later, is still signing
C17_Witness ==
    \E r1, r2 \in Requests :
        /\ r1 # r2
        /\ requests[r1].pc = "signing"
        /\ requests[r2].pc = "done" /\ requests[r2].result.ok
        /\ requests[r1].op = requests[r2].op
        /\ requests[r1].signer.value.public_key = requests[r2].result.value.public_key

\* =========================================================== TranscriptHash
HKDF_INFO == "TENDERMINT_SECRET_CONNECTION_TRANSCRIPT_HASH"
\* b"INIT_HANDSHAKE"
TRANSCRIPT_HASH_INIT == <<73, 78, 73, 84, 95, 72, 65, 78, 68, 83, 72, 65, 75, 69>>
\* hash_state: [u8; 32]
HASH_STATE_SIZE == 32

\* an array of n zero bytes
ZeroBytes(n) == [len |-> n, zero |-> TRUE]

\* Hkdf::<Sha256>::extract(salt, ikm) and .expand(info, okm). HKDF is taken
\* as collision-free: the pseudorandom key and the output are the terms of
\* their inputs, so different inputs give different outputs and no output
\* is all zeros. An absent salt is a salt of zero bytes (RFC 5869).
Hkdf_extract(salt, ikm) ==
    [salt |-> IF salt.some THEN salt.value ELSE ZeroBytes(HASH_STATE_SIZE), ikm |-> ikm]
Hkdf_expand(prk, info, n) == [len |-> n, prk |-> prk, info |-> info]

\* TranscriptHash::init: the hash_state of the new TranscriptHash
TranscriptHash_init ==
    Hkdf_expand(Hkdf_extract(None, TRANSCRIPT_HASH_INIT), HKDF_INFO, HASH_STATE_SIZE)

\* faulty variant of TranscriptHash_update: the output is not written to hash_state
TranscriptHash_update_discarding_output(state, data) == state

\* TranscriptHash::update: the hash_state after the call
TranscriptHash_update(state, data) ==
    Hkdf_expand(Hkdf_extract(Some(state), data), HKDF_INFO, HASH_STATE_SIZE)

\* TranscriptHash::extract: a copy of hash_state
TranscriptHash_extract(state) == state

\* faulty variant of TranscriptHash_drop: hash_state is left as it is
TranscriptHash_drop_keeping_state(state) == state

\* impl Drop for TranscriptHash: self.hash_state.zeroize()
TranscriptHash_drop(state) == ZeroBytes(state.len)

Data == {<<>>} \cup {<<i>> : i \in 1..NumData}

NoKeyring ==
    /\ registry = NewRegistry({"chain-1"})
    /\ configs = <<>>
    /\ last = NoCall
    /\ pre = registry
    /\ emitted = <<>>
    /\ invoked = <<>>
    /\ file_reads = <<>>
    /\ heap = <<>>

TranscriptInit ==
    /\ hash_state = TranscriptHash_init
    /\ transcript = <<>>
    /\ dropped = FALSE
    /\ NoKeyring /\ NoLoader /\ NoRequests /\ NoHChaCha

Update(data) ==
    /\ ~dropped
    /\ Len(transcript) < MaxUpdates
    /\ hash_state' = TranscriptHash_update(hash_state, data)
    /\ transcript' = Append(transcript, data)
    /\ last' = Call("update", "", None, None, 0, Ok(Unit))
    /\ UNCHANGED <<dropped, registry, configs, pre, emitted, invoked, file_reads, heap,
                   loader_vars, request_vars, hchacha_vars>>

Extract ==
    /\ ~dropped
    /\ last' = Call("extract", "", None, None, 0, Ok(TranscriptHash_extract(hash_state)))
    /\ UNCHANGED <<transcript_vars, registry, configs, pre, emitted, invoked, file_reads,
                   heap, loader_vars, request_vars, hchacha_vars>>

\* the TranscriptHash goes out of scope
Drop ==
    /\ ~dropped
    /\ hash_state' = TranscriptHash_drop(hash_state)
    /\ dropped' = TRUE
    /\ last' = Call("drop", "", None, None, 0, Ok(Unit))
    /\ UNCHANGED <<transcript, registry, configs, pre, emitted, invoked, file_reads, heap,
                   loader_vars, request_vars, hchacha_vars>>

TranscriptNext ==
    \/ \E data \in Data : Update(data)
    \/ Extract
    \/ Drop

TranscriptSpec == TranscriptInit /\ [][TranscriptNext]_vars

\* ---------------------------------------------------- TranscriptHash claims
\* the hash_state of init().update(data[1]). ... .update(data[n])
RECURSIVE Folded(_)
Folded(data) ==
    IF data = <<>> THEN TranscriptHash_init
    ELSE TranscriptHash_update(Folded(SubSeq(data, 1, Len(data) - 1)), data[Len(data)])

\* C14: with HKDF collision-free, the hash_state after update(A).update(B)
\* for distinct A and B differs from the one after update(B).update(A), from
\* the one after update(A) alone, and from the one after
\* update(A).update(B).update(C) for any C distinct from both.
C14_OrderAndLengthSensitive ==
    (~dropped /\ Len(transcript) = 2 /\ transcript[1] # transcript[2])
    => LET A == transcript[1]
           B == transcript[2]
       IN  /\ hash_state # Folded(<<B, A>>)
           /\ hash_state # Folded(<<A>>)
           /\ \A C \in Data \ {A, B} : hash_state # Folded(<<A, B, C>>)

\* two distinct, non-empty data have been folded and the state is their fold
C14_Witness ==
    /\ ~dropped /\ Len(transcript) = 2
    /\ transcript[1] # transcript[2] /\ transcript[1] # <<>> /\ transcript[2] # <<>>
    /\ Data \ {transcript[1], transcript[2]} # {}
    /\ hash_state = Folded(transcript)

\* C15: once the TranscriptHash is dropped its hash_state is 32 zero bytes,
\* whatever updates and extracts came before.
C15_ZeroedOnDrop ==
    dropped => hash_state = ZeroBytes(HASH_STATE_SIZE)

\* dropped after two or more updates
C15_Witness ==
    /\ dropped
    /\ Len(transcript) >= 2
    /\ hash_state = ZeroBytes(HASH_STATE_SIZE)
    /\ last.op = "drop"

\* ================================================================ hchacha20
\* A u32 is kept as two 16-bit halves <<high, low>>: its value is
\* high * 2^16 + low, and every operation wraps at 32 bits.
HALF == 65536
u32(high, low) == <<high, low>>

\* u32::wrapping_add
wrapping_add(x, y) ==
    LET low == x[2] + y[2]
        high == x[1] + y[1] + (low \div HALF)
    IN  u32(high % HALF, low % HALF)

\* ^ on u32, bit by bit
RECURSIVE xor_bits(_, _, _)
xor_bits(a, b, n) ==
    IF n = 0 THEN 0
    ELSE ((a + b) % 2) + 2 * xor_bits(a \div 2, b \div 2, n - 1)
xor(x, y) == u32(xor_bits(x[1], y[1], 16), xor_bits(x[2], y[2], 16))

\* u32::rotate_left, for n below 32
rotate_left(x, n) ==
    LET y == IF n >= 16 THEN u32(x[2], x[1]) ELSE x
        m == n % 16
    IN  u32(((y[1] * (2 ^ m)) % HALF) + (y[2] \div (2 ^ (16 - m))),
            ((y[2] * (2 ^ m)) % HALF) + (y[1] \div (2 ^ (16 - m))))

\* LE::read_u32 and LE::write_u32
read_u32(bytes) == u32(bytes[3] + 256 * bytes[4], bytes[1] + 256 * bytes[2])
write_u32(x) == <<x[2] % 256, x[2] \div 256, x[1] % 256, x[1] \div 256>>

\* quarter_round!(state, idx0, idx1, idx2, idx3); state[i] is state[i + 1] here
quarter_round(state, idx0, idx1, idx2, idx3) ==
    LET a0 == state[1 + idx0]
        b0 == state[5 + idx1]
        c0 == state[9 + idx2]
        d0 == state[13 + idx3]
        a1 == wrapping_add(a0, b0)
        d1 == rotate_left(xor(d0, a1), 16)
        c1 == wrapping_add(c0, d1)
        b1 == rotate_left(xor(b0, c1), 12)
        a2 == wrapping_add(a1, b1)
        d2 == rotate_left(xor(d1, a2), 8)
        c2 == wrapping_add(c1, d2)
        b2 == rotate_left(xor(b1, c2), 7)
    IN  [state EXCEPT ![1 + idx0] = a2, ![5 + idx1] = b2,
                      ![9 + idx2] = c2, ![13 + idx3] = d2]

\* one pass of the loop: the column rounds, then the diagonal rounds
double_round(state) ==
    LET s1 == quarter_round(state, 0, 0, 0, 0)
        s2 == quarter_round(s1, 1, 1, 1, 1)
        s3 == quarter_round(s2, 2, 2, 2, 2)
        s4 == quarter_round(s3, 3, 3, 3, 3)
        s5 == quarter_round(s4, 0, 1, 2, 3)
        s6 == quarter_round(s5, 1, 2, 3, 0)
        s7 == quarter_round(s6, 2, 3, 0, 1)
    IN  quarter_round(s7, 3, 0, 1, 2)

\* for _ in 0..10
ROUNDS == 10

\* Output size of the HChaCha20 function in bytes
OUTPUT_SIZE == 32

\* the state before the rounds: the constants, the key and the input
initial_state(key, input) ==
    <<u32(24944, 30821), u32(13088, 25710), u32(31074, 11570), u32(27424, 25972)>>
    \o [i \in 1..8 |-> read_u32(SubSeq(key, 4 * i - 3, 4 * i))]
    \o [i \in 1..4 |-> read_u32(SubSeq(input, 4 * i - 3, 4 * i))]

\* the output bytes: state[0..4] and state[12..16], little-endian
output_bytes(state) ==
    write_u32(state[1]) \o write_u32(state[2]) \o write_u32(state[3]) \o write_u32(state[4])
    \o write_u32(state[13]) \o write_u32(state[14]) \o write_u32(state[15])
    \o write_u32(state[16])

\* the test vector of the source
KEY == [i \in 1..32 |-> i - 1]
INPUT == <<0, 0, 0, 9, 0, 0, 0, 74, 0, 0, 0, 0, 49, 65, 89, 39>>
OUTPUT ==
    <<130, 65, 59, 66, 39, 178, 123, 254, 211, 14, 66, 80, 138, 135, 125, 115,
      160, 249, 228, 213, 138, 116, 168, 83, 193, 46, 196, 19, 38, 211, 236, 220>>

\* the keys and inputs hchacha20 is called with: the test vector's and
\* variations of them (every byte of the key shifted, one byte of the input)
HChaChaKeys == {[i \in 1..32 |-> (KEY[i] + 37 * k) % 256] : k \in 0..(NumHChaChaKeys - 1)}
HChaChaInputs ==
    {[INPUT EXCEPT ![16] = (@ + 59 * j) % 256] : j \in 0..(NumHChaChaInputs - 1)}

HChaChaInit ==
    /\ hchacha_key \in HChaChaKeys
    /\ hchacha_input \in HChaChaInputs
    /\ hchacha_state = <<>>
    /\ hchacha_round = 0
    /\ hchacha_output = None
    /\ NoKeyring /\ NoLoader /\ NoRequests /\ NoTranscript

outside_hchacha == <<keyring_vars, loader_vars, request_vars, transcript_vars>>

\* hchacha20 is called: the state is loaded with the constants, the key and
\* the input
LoadState ==
    /\ hchacha_state = <<>>
    /\ hchacha_state' = initial_state(hchacha_key, hchacha_input)
    /\ UNCHANGED <<hchacha_key, hchacha_input, hchacha_round, hchacha_output,
                   outside_hchacha>>

\* one pass of the loop
DoubleRound ==
    /\ hchacha_state # <<>>
    /\ hchacha_round < ROUNDS
    /\ hchacha_state' = double_round(hchacha_state)
    /\ hchacha_round' = hchacha_round + 1
    /\ UNCHANGED <<hchacha_key, hchacha_input, hchacha_output, outside_hchacha>>

\* faulty variant of WriteOutput: the loaded state is added back to the
\* final state, as the ChaCha20 block function does
WriteOutput_adding_back ==
    /\ hchacha_round = ROUNDS
    /\ ~hchacha_output.some
    /\ LET loaded == initial_state(hchacha_key, hchacha_input)
       IN  hchacha_output' =
               Some(output_bytes([i \in 1..16 |->
                                     wrapping_add(hchacha_state[i], loaded[i])]))
    /\ UNCHANGED <<hchacha_key, hchacha_input, hchacha_state, hchacha_round,
                   outside_hchacha>>

\* the loop has ended: the output is written and returned
WriteOutput ==
    /\ hchacha_round = ROUNDS
    /\ ~hchacha_output.some
    /\ hchacha_output' = Some(output_bytes(hchacha_state))
    /\ UNCHANGED <<hchacha_key, hchacha_input, hchacha_state, hchacha_round,
                   outside_hchacha>>

HChaChaNext ==
    \/ LoadState
    \/ DoubleRound
    \/ WriteOutput

HChaChaSpec == HChaChaInit /\ [][HChaChaNext]_vars

\* ---------------------------------------------------------- hchacha20 claims
\* C13: hchacha20 (32-bit wrapping add, xor and rotate-left over ten double
\* rounds, output words 0..3 and 12..15 little-endian, nothing added back)
\* returns 32 bytes, and for the test vector's key 00..1f and input
\* 00000009 0000004a 00000000 31415927 it returns
\* 82413b42 27b27bfe d30e4250 8a877d73 a0f9e4d5 8a74a853 c12ec413 26d3ecdc.
C13_TestVector ==
    hchacha_output.some
    => /\ Len(hchacha_output.value) = OUTPUT_SIZE
       /\ \A i \in 1..OUTPUT_SIZE : hchacha_output.value[i] \in 0..255
       /\ (hchacha_key = KEY /\ hchacha_input = INPUT) => hchacha_output.value = OUTPUT

\* hchacha20 has returned for the test vector's key and input
C13_Witness ==
    /\ hchacha_key = KEY /\ hchacha_input = INPUT
    /\ hchacha_output.some
    /\ hchacha_output.value[1] = 130 /\ hchacha_output.value[32] = 220
====
